---- MODULE Spec2Model ----
(***************************************************************************)
(* Model of src/main.py: a Telegram bot that polls a "current track" API   *)
(* and republishes the track in a channel.  The asyncio event loop is      *)
(* cooperative: a coroutine runs without interruption from one await that  *)
(* suspends (a Telegram or HTTP call, asyncio.sleep) to the next.  Every   *)
(* action below is one such run: it starts with the effect and result of   *)
(* the call the coroutine was suspended in and goes on to the next call.   *)
(* None is modelled as 0; message ids and track ids are positive.          *)
(***************************************************************************)
EXTENDS Integers, FiniteSets, Sequences, Bags, TLC

\* ---------------------------------------------------------------- bounds
MaxInputs == 3      \* updates (button presses, /start commands) received
MaxPosts == 2       \* track posts the bot may send to the channel
MaxAudios == 1      \* audio messages it may send to the download channel
MaxStatus == 2      \* status messages it may send to the control chat
MaxTrack == 2       \* distinct track ids the API may return

None == 0
TrackIds == 1..MaxTrack
PostIds == 1..MaxPosts
AudioIds == 1..MaxAudios
StatusIds == 1..MaxStatus

\* query.data values: the three buttons of get_bot_keyboard and one other
ButtonData == {"start_tracker", "stop_tracker", "refresh_status"}
CallbackData == ButtonData \cup {"toggle_poster"}

VARIABLES
    last_track_id,          \* BotState.last_track_id
    channel_message_id,     \* BotState.channel_message_id
    download_message_id,    \* BotState.download_message_id
    bot_active,             \* BotState.bot_active
    bot_status_message_id,  \* BotState.bot_status_message_id
    loops,                  \* bag of track_checker tasks: position and locals
    h,                      \* the update handler being run (one at a time)
    channel,                \* CHANNEL_ID: ids of the track posts present
    download_channel,       \* DOWNLOAD_CHANNEL_ID: ids of the audios present
    control_chat,           \* control chat: status message ids present
    shown,                  \* CHANNEL_ID: track shown by the newest post
    played,                 \* DOWNLOAD_CHANNEL_ID: track of the newest audio
    sent,                   \* messages sent so far to each chat
    inputs,                 \* history: highest rank of update received so far
    received                \* history: number of updates received so far

vars == <<last_track_id, channel_message_id, download_message_id, bot_active,
          bot_status_message_id, loops, h, channel, download_channel,
          control_chat, shown, played, sent, inputs, received>>

BotState == <<last_track_id, channel_message_id, download_message_id,
              bot_active, bot_status_message_id>>

chats == <<channel, download_channel, control_chat, shown, played, sent>>

hist == <<inputs, received>>

\* ------------------------------------------------------------- helpers
\* a task about to test the while condition: just created by create_task
\* (line 298) or suspended in asyncio.sleep (line 284)
Waiting == [pc |-> "while", id |-> 0, url |-> FALSE, arg |-> 0]

Alive == BagCardinality(loops)
One(l) == SetToBag({l})

\* what the request of get_current_track can come to: an exception (in
\* requests.get, response.json or the helpers), or a response with a status
\* code, with or without a "track" object, a "track_id" (None when missing
\* or empty) and a "download_link"; what there is not, or is not read, is
\* left at 200, FALSE and None
Responses ==
    {r \in [raises : BOOLEAN, status : {200, 500}, track : BOOLEAN,
            track_id : {None} \cup TrackIds, download_link : BOOLEAN] :
        /\ r.raises => r.status = 200
        /\ (r.raises \/ r.status # 200) => ~r.track
        /\ ~r.track => r.track_id = None
        /\ r.track_id = None => ~r.download_link}

\* the None of get_current_track
NoTrack == [none |-> TRUE]

get_current_track_any_id(r) ==
    IF r.raises THEN NoTrack
    ELSE IF r.status # 200 THEN NoTrack
    ELSE IF ~r.track THEN NoTrack
    ELSE [id |-> r.track_id, url |-> r.download_link]
\* lines 127-170: the dict of the track, of which the model keeps the id and
\* whether there is a download_url, or None
get_current_track(r) ==
    IF r.raises THEN NoTrack
    ELSE IF r.status # 200 THEN NoTrack
    ELSE IF ~r.track THEN NoTrack
    ELSE IF r.track_id = None THEN NoTrack
    ELSE [id |-> r.track_id, url |-> r.download_link]

Init ==
    /\ last_track_id = None
    /\ channel_message_id = None
    /\ download_message_id = None
    /\ bot_active = FALSE
    /\ bot_status_message_id = None
    /\ loops = EmptyBag
    /\ h = [pc |-> "idle", data |-> "", arg |-> 0]
    /\ channel = {}
    /\ download_channel = {}
    /\ control_chat = {}
    /\ shown = None
    /\ played = None
    /\ sent = [ch |-> 0, dl |-> 0, st |-> 0]
    /\ inputs = 0
    /\ received = 0

\* ------------------------------------------------- Telegram call effects
\* bot.delete_message: removes the message when the call succeeds; a call on
\* a message that is not there (or on None) cannot succeed
Deleted(chat, id) == {chat, chat \ {id}}
\* the chats keep what each message shows; of that, the model keeps the track
\* of the newest message of the channel and of the download channel (None
\* when there is none or it was deleted): the ids the state record holds are
\* ids of newest messages
\* the track of the newest message once the messages left are present
Kept(track, newest, present) == IF newest \in present THEN track ELSE None
\* the track of the newest message once message id was edited to show t
Edited(track, newest, id, t) == IF id = newest THEN t ELSE track
\* the track of the newest message once message id, if any, was sent for t
Sent(track, id, t) == IF id = None THEN track ELSE t

\* ------------------------------------------------------- track_checker
Goto(l, pc, arg) ==
    loops' = (loops (-) One(l)) (+) One([l EXCEPT !.pc = pc, !.arg = arg])
\* line 284: asyncio.sleep, then back to the while test
Sleep(l) == loops' = (loops (-) One(l)) (+) One(Waiting)
\* the coroutine returns
Exit(l) == loops' = loops (-) One(l)

\* lines 273-282: the download step is over and track["download_url"] is
\* not read again in the iteration
Posting(l, pc, arg) ==
    loops' = (loops (-) One(l)) (+)
             One([l EXCEPT !.pc = pc, !.arg = arg, !.url = FALSE])

ToChannelResend(l) == Posting(l, "ch_delete", channel_message_id)
\* lines 273-277 up to the Telegram call of edit_track_message: the message
\* id is the argument evaluated when the coroutine is called
ToChannelEdit(l) == Posting(l, "ch_edit", channel_message_id)

Changed_always(t) == TRUE
\* line 264: a change is a different track id
Changed(t) == t.id # last_track_id

Running_always == TRUE
\* line 261: the while condition
Running == bot_active

\* lines 263-265, 270-271, 279-280: the branch on the track polled, up to
\* the first call that suspends
track_checker_branch(l, t) ==
    LET at(pc, arg) ==
            loops' = (loops (-) One(l)) (+)
                     One([pc |-> pc, id |-> t.id, url |-> t.url, arg |-> arg])
    IN
    IF t = NoTrack
    THEN UNCHANGED <<loops, download_message_id>>
    ELSE IF channel_message_id # None /\ Changed(t)
    THEN IF download_message_id # None
         THEN /\ IF t.url
                 THEN at("dl_update", download_message_id)
                 ELSE at("dl_delete", download_message_id)
              /\ UNCHANGED download_message_id
         ELSE IF t.url
              THEN at("dl_send", 0) /\ UNCHANGED download_message_id
              ELSE /\ download_message_id' = None
                   /\ at("ch_edit", channel_message_id)
    ELSE IF channel_message_id = None
    THEN IF t.url
         THEN at("new_dl_send", 0) /\ UNCHANGED download_message_id
         ELSE /\ download_message_id' = None
              /\ at("new_ch_send", 0)
    ELSE UNCHANGED <<loops, download_message_id>>

\* what get_current_track can return
Polled == {get_current_track(r) : r \in Responses}

\* lines 261-262 and the branch: one pass from the while test to the first
\* call that suspends, when the (blocking) get_current_track returns t
track_checker_polled(l, t) ==
    /\ l.pc = "while"
    /\ UNCHANGED <<h, chats, hist, bot_active, bot_status_message_id,
                   last_track_id, channel_message_id>>
    /\ IF ~Running
       THEN Exit(l) /\ UNCHANGED download_message_id
       ELSE track_checker_branch(l, t)

track_checker_poll(l) == \E t \in Polled : track_checker_polled(l, t)

track_checker_dl_update_no_delete(l) ==
    /\ l.pc = "dl_update"
    /\ UNCHANGED <<h, channel, shown, download_channel, control_chat, sent,
                   hist, BotState>>
    /\ \/ /\ l.arg \in download_channel
          /\ played' = Edited(played, sent.dl, l.arg, l.id)
          /\ ToChannelEdit(l)
       \/ /\ UNCHANGED played
          /\ Goto(l, "dl_send", 0)
\* lines 266-268, update_download_message (230-258): the download and the
\* edit_message_media call on the message id passed in; the edit can succeed
\* only on a message that is there
track_checker_dl_update(l) ==
    /\ l.pc = "dl_update"
    /\ UNCHANGED <<h, channel, shown, download_channel, control_chat, sent,
                   hist, BotState>>
    /\ \/ /\ l.arg \in download_channel
          /\ played' = Edited(played, sent.dl, l.arg, l.id)
          /\ ToChannelEdit(l)
       \/ /\ UNCHANGED played
          /\ Goto(l, "dl_delete", download_message_id)

\* lines 268-269: delete_message returns, send_new_download_message starts
track_checker_dl_delete(l) ==
    /\ l.pc = "dl_delete"
    /\ UNCHANGED <<h, channel, shown, control_chat, sent, hist, bot_active,
                   bot_status_message_id, last_track_id, channel_message_id>>
    /\ download_channel' \in Deleted(download_channel, l.arg)
    /\ played' = Kept(played, sent.dl, download_channel')
    /\ IF l.url
       THEN Goto(l, "dl_send", 0) /\ UNCHANGED download_message_id
       ELSE download_message_id' = None /\ ToChannelEdit(l)

\* send_new_download_message (203-228): the id of the audio sent, or None
SendAudio(result) ==
    \/ /\ sent.dl < MaxAudios
       /\ result = sent.dl + 1
       /\ sent' = [sent EXCEPT !.dl = result]
       /\ download_channel' = download_channel \cup {result}
    \/ /\ result = None
       /\ UNCHANGED <<sent, download_channel>>

\* send_new_track_message (172-184): the id of the post sent, or None
SendPhoto(result) ==
    \/ /\ sent.ch < MaxPosts
       /\ result = sent.ch + 1
       /\ sent' = [sent EXCEPT !.ch = result]
       /\ channel' = channel \cup {result}
    \/ /\ result = None
       /\ UNCHANGED <<sent, channel>>

\* lines 269 and 271: the assignment of download_message_id
track_checker_dl_send(l) ==
    /\ l.pc = "dl_send"
    /\ UNCHANGED <<h, channel, shown, control_chat, hist, bot_active,
                   bot_status_message_id, last_track_id, channel_message_id>>
    /\ \E r \in {None} \cup AudioIds :
        /\ SendAudio(r)
        /\ played' = Sent(played, r, l.id)
        /\ download_message_id' = r
    /\ ToChannelEdit(l)

\* lines 273-277, edit_track_message (186-201): the edit can succeed only on
\* a message that is there
track_checker_ch_edit(l) ==
    /\ l.pc = "ch_edit"
    /\ UNCHANGED <<h, channel, download_channel, played, control_chat, sent,
                   hist, bot_active, bot_status_message_id,
                   channel_message_id, download_message_id>>
    /\ \/ /\ l.arg \in channel
          /\ shown' = Edited(shown, sent.ch, l.arg, l.id)
          /\ last_track_id' = l.id
          /\ Sleep(l)
       \/ /\ UNCHANGED <<shown, last_track_id>>
          /\ Goto(l, "ch_delete", channel_message_id)

\* lines 274-275: delete_message returns, send_new_track_message starts
track_checker_ch_delete(l) ==
    /\ l.pc = "ch_delete"
    /\ UNCHANGED <<h, download_channel, played, control_chat, sent, hist,
                   BotState>>
    /\ channel' \in Deleted(channel, l.arg)
    /\ shown' = Kept(shown, sent.ch, channel')
    /\ Goto(l, "ch_send", 0)

track_checker_ch_send_keep_id(l) ==
    /\ l.pc = "ch_send"
    /\ UNCHANGED <<h, download_channel, played, control_chat, hist, bot_active,
                   bot_status_message_id, download_message_id>>
    /\ \E r \in {None} \cup PostIds :
        /\ SendPhoto(r)
        /\ shown' = Sent(shown, r, l.id)
        /\ channel_message_id' = IF r = None THEN channel_message_id ELSE r
    /\ last_track_id' = l.id
    /\ Sleep(l)
\* lines 275-277: the assignment of channel_message_id and last_track_id
track_checker_ch_send(l) ==
    /\ l.pc = "ch_send"
    /\ UNCHANGED <<h, download_channel, played, control_chat, hist, bot_active,
                   bot_status_message_id, download_message_id>>
    /\ \E r \in {None} \cup PostIds :
        /\ SendPhoto(r)
        /\ shown' = Sent(shown, r, l.id)
        /\ channel_message_id' = r
    /\ last_track_id' = l.id
    /\ Sleep(l)

\* lines 280-281: the assignment of download_message_id in the elif branch
track_checker_new_dl_send(l) ==
    /\ l.pc = "new_dl_send"
    /\ UNCHANGED <<h, channel, shown, control_chat, hist, bot_active,
                   bot_status_message_id, last_track_id, channel_message_id>>
    /\ \E r \in {None} \cup AudioIds :
        /\ SendAudio(r)
        /\ played' = Sent(played, r, l.id)
        /\ download_message_id' = r
    /\ Posting(l, "new_ch_send", 0)

\* lines 281-282: the assignment of channel_message_id in the elif branch
track_checker_new_ch_send(l) ==
    /\ l.pc = "new_ch_send"
    /\ UNCHANGED <<h, download_channel, played, control_chat, hist, bot_active,
                   bot_status_message_id, download_message_id>>
    /\ \E r \in {None} \cup PostIds :
        /\ SendPhoto(r)
        /\ shown' = Sent(shown, r, l.id)
        /\ channel_message_id' = r
    /\ last_track_id' = l.id
    /\ Sleep(l)

\* ------------------------------------------------------ update handlers
NoHandler == [pc |-> "idle", data |-> "", arg |-> 0]
Handler(pc, arg) == h' = [h EXCEPT !.pc = pc, !.arg = arg]
\* the handler returns or raises: the application takes the next update
Return == h' = NoHandler
\* lines 299, 310, 314: the handler ends with update_status_message
ToStatus == h' = [pc |-> "status", data |-> "", arg |-> 0]

\* what has been received so far, by rank: nothing but stop_tracker and
\* unknown presses (0), a refresh_status press (1), a /start command (2),
\* a start_tracker press (3)
Rank(kind) ==
    IF kind = "start_tracker" THEN 3
    ELSE IF kind = "/start" THEN 2
    ELSE IF kind = "refresh_status" THEN 1
    ELSE 0
Received(kind) == IF Rank(kind) > inputs THEN Rank(kind) ELSE inputs

\* lines 286-288: a callback query arrives and the handler awaits
\* query.answer(), which is going to return
button_press(d) ==
    /\ h = NoHandler
    /\ received < MaxInputs
    /\ received' = received + 1
    /\ h' = [pc |-> "answer", data |-> d, arg |-> 0]
    /\ inputs' = Received(d)
    /\ UNCHANGED <<BotState, loops, chats>>

\* line 288: a callback query arrives, query.answer() raises and the handler
\* ends there
button_answer_failed(d) ==
    /\ h = NoHandler
    /\ received < MaxInputs
    /\ received' = received + 1
    /\ inputs' = Received(d)
    /\ UNCHANGED <<BotState, loops, chats, h>>

StartGuard_none == TRUE
\* line 294
StartGuard == ~bot_active

\* lines 293-299
start_tracker ==
    /\ UNCHANGED <<chats, hist, last_track_id, bot_status_message_id>>
    /\ IF StartGuard
       THEN /\ bot_active' = TRUE
            /\ channel_message_id' = None
            /\ download_message_id' = None
            /\ loops' = loops (+) One(Waiting)
            /\ ToStatus
       ELSE /\ Return
            /\ UNCHANGED <<bot_active, channel_message_id, download_message_id,
                           loops>>

StopGuard_none == TRUE
\* line 302
StopGuard == bot_active

\* lines 301-310 up to the first call that suspends
stop_tracker ==
    /\ UNCHANGED <<chats, hist, loops, last_track_id, bot_status_message_id,
                   channel_message_id, download_message_id>>
    /\ IF StopGuard
       THEN /\ bot_active' = FALSE
            /\ IF channel_message_id # None
               THEN Handler("stop_del_ch", channel_message_id)
               ELSE IF download_message_id # None
               THEN Handler("stop_del_dl", download_message_id)
               ELSE ToStatus
       ELSE /\ Return
            /\ UNCHANGED bot_active

\* lines 312-314
refresh_status ==
    /\ ToStatus
    /\ UNCHANGED <<BotState, loops, chats, hist>>

IsRefresh_else(d) == TRUE
\* line 312
IsRefresh(d) == d = "refresh_status"

\* lines 290-314: query.answer() returned, dispatch on query.data
button_handler ==
    /\ h.pc = "answer"
    /\ IF h.data = "start_tracker" THEN start_tracker
       ELSE IF h.data = "stop_tracker" THEN stop_tracker
       ELSE IF IsRefresh(h.data) THEN refresh_status
       ELSE /\ Return
            /\ UNCHANGED <<BotState, loops, chats, hist>>

\* lines 305-307: delete_message returns, channel_message_id is reset
stop_delete_channel ==
    /\ h.pc = "stop_del_ch"
    /\ channel' \in Deleted(channel, h.arg)
    /\ shown' = Kept(shown, sent.ch, channel')
    /\ channel_message_id' = None
    /\ IF download_message_id # None
       THEN Handler("stop_del_dl", download_message_id)
       ELSE ToStatus
    /\ UNCHANGED <<download_channel, played, control_chat, sent, hist, loops,
                   bot_active, bot_status_message_id, last_track_id,
                   download_message_id>>

\* lines 308-310: delete_message returns, download_message_id is reset
stop_delete_download ==
    /\ h.pc = "stop_del_dl"
    /\ download_channel' \in Deleted(download_channel, h.arg)
    /\ played' = Kept(played, sent.dl, download_channel')
    /\ download_message_id' = None
    /\ ToStatus
    /\ UNCHANGED <<channel, shown, control_chat, sent, hist, loops, bot_active,
                   bot_status_message_id, last_track_id, channel_message_id>>

update_status_message_always_send ==
    /\ h.pc = "status"
    /\ Return
    /\ UNCHANGED <<channel, shown, download_channel, played, hist, loops,
                   bot_active, last_track_id, channel_message_id,
                   download_message_id>>
    /\ \/ /\ sent.st < MaxStatus
          /\ sent' = [sent EXCEPT !.st = sent.st + 1]
          /\ control_chat' = control_chat \cup {sent.st + 1}
          /\ bot_status_message_id' = sent.st + 1
       \/ UNCHANGED <<bot_status_message_id, control_chat, sent>>
\* lines 322-339: edit the recorded status message, or send one and record it
update_status_message ==
    /\ h.pc = "status"
    /\ Return
    /\ UNCHANGED <<channel, shown, download_channel, played, hist, loops,
                   bot_active, last_track_id, channel_message_id,
                   download_message_id>>
    /\ IF bot_status_message_id # None
       THEN UNCHANGED <<bot_status_message_id, control_chat, sent>>
       ELSE \/ /\ sent.st < MaxStatus
               /\ sent' = [sent EXCEPT !.st = sent.st + 1]
               /\ control_chat' = control_chat \cup {sent.st + 1}
               /\ bot_status_message_id' = sent.st + 1
            \/ UNCHANGED <<bot_status_message_id, control_chat, sent>>

\* lines 341-350: /start arrives; the recorded status message is deleted first
start_command ==
    /\ h = NoHandler
    /\ received < MaxInputs
    /\ received' = received + 1
    /\ h' = [pc |-> IF bot_status_message_id # None THEN "cmd_del"
                                                     ELSE "cmd_reply",
             data |-> "/start", arg |-> bot_status_message_id]
    /\ inputs' = Received("/start")
    /\ UNCHANGED <<BotState, loops, chats>>

\* lines 343-349: bot.delete_message returns or raises (the error is logged)
start_command_delete ==
    /\ h.pc = "cmd_del"
    /\ control_chat' \in {control_chat, control_chat \ {h.arg}}
    /\ Handler("cmd_reply", 0)
    /\ UNCHANGED <<BotState, loops, channel, shown, download_channel, played,
                   sent, hist>>

\* lines 351-355: reply_text returns and its id is recorded, or it raises
start_command_reply ==
    /\ h.pc = "cmd_reply"
    /\ UNCHANGED <<channel, shown, download_channel, played, hist, loops,
                   bot_active, last_track_id, channel_message_id,
                   download_message_id>>
    /\ \/ /\ sent.st < MaxStatus
          /\ sent' = [sent EXCEPT !.st = sent.st + 1]
          /\ control_chat' = control_chat \cup {sent.st + 1}
          /\ bot_status_message_id' = sent.st + 1
          /\ Return
       \/ /\ Return
          /\ UNCHANGED <<bot_status_message_id, control_chat, sent>>

Next ==
    \/ \E l \in BagToSet(loops) : track_checker_poll(l)
    \/ \E l \in BagToSet(loops) : track_checker_dl_update(l)
    \/ \E l \in BagToSet(loops) : track_checker_dl_delete(l)
    \/ \E l \in BagToSet(loops) : track_checker_dl_send(l)
    \/ \E l \in BagToSet(loops) : track_checker_ch_edit(l)
    \/ \E l \in BagToSet(loops) : track_checker_ch_delete(l)
    \/ \E l \in BagToSet(loops) : track_checker_ch_send(l)
    \/ \E l \in BagToSet(loops) : track_checker_new_dl_send(l)
    \/ \E l \in BagToSet(loops) : track_checker_new_ch_send(l)
    \/ \E d \in CallbackData : button_press(d)
    \/ \E d \in CallbackData : button_answer_failed(d)
    \/ button_handler
    \/ stop_delete_channel
    \/ stop_delete_download
    \/ update_status_message
    \/ start_command
    \/ start_command_delete
    \/ start_command_reply

Spec == Init /\ [][Next]_vars

\* the event loop runs every task that is ready, and every Telegram or HTTP
\* call and every asyncio.sleep returns: a track_checker task that can take
\* a step takes one
track_checker(l) ==
    \/ track_checker_poll(l)
    \/ track_checker_dl_update(l)
    \/ track_checker_dl_delete(l)
    \/ track_checker_dl_send(l)
    \/ track_checker_ch_edit(l)
    \/ track_checker_ch_delete(l)
    \/ track_checker_ch_send(l)
    \/ track_checker_new_dl_send(l)
    \/ track_checker_new_ch_send(l)

FairSpec == Spec /\ WF_vars(\E l \in BagToSet(loops) : track_checker(l))

\* ----------------------------------------------------------- properties
\* a step of one track_checker task, from l to l2
Stepped(l, l2) == l # l2 /\ loops' = (loops (-) One(l)) (+) One(l2)

\* the state record as BotState.__init__ leaves it
TrackerInitial ==
    /\ last_track_id = None
    /\ channel_message_id = None
    /\ download_message_id = None
    /\ bot_active = FALSE
AllInitial == TrackerInitial /\ bot_status_message_id = None

\* between iterations and handlers: no handler is at work and every loop is
\* at its while test
Quiescent == h = NoHandler /\ \A l \in BagToSet(loops) : l.pc = "while"

\* C1: at most one track_checker loop is alive at any time
C1_AtMostOneLoop == Alive <= 1

\* C2: once bot_active is False, every track_checker loop exits unless a
\* start_tracker press makes it True again, and a loop that tests the while
\* condition while bot_active is False does nothing but exit
C2_LoopsExit == (~bot_active) ~> (bot_active \/ Alive = 0)
C2_ExitAtTest ==
    [][\A l \in BagToSet(loops) : \A l2 \in BagToSet(loops') :
          (l.pc = "while" /\ ~bot_active) => ~Stepped(l, l2)]_vars
C2_Cancellation == C2_LoopsExit /\ C2_ExitAtTest
\* the tracker was stopped while an iteration was in flight
C2_Witness ==
    /\ ~bot_active
    /\ h = NoHandler
    /\ \E l \in BagToSet(loops) : l.pc # "while"

\* C3: between iterations and handlers the channel holds exactly the post
\* channel_message_id refers to, and no post when channel_message_id is None
C3_ChannelMatchesId ==
    Quiescent =>
        channel = IF channel_message_id = None THEN {}
                                               ELSE {channel_message_id}

\* C4: on a change of track with a post displayed the loop touches nothing in
\* the channel before it has tried the edit; an edit that succeeds leaves
\* channel_message_id, the posts and the number of posts sent as they are;
\* the delete is made only after a failed edit and removes at most the post
\* it is called on, the send only after that delete, and channel_message_id
\* becomes the id of the post sent, or None when the send fails
C4_EditThenResend ==
    [][\A l \in BagToSet(loops) : \A l2 \in BagToSet(loops') :
        Stepped(l, l2) =>
          /\ (l.pc = "while" /\ channel_message_id # None) =>
                /\ l2.pc \in {"dl_update", "dl_delete", "dl_send", "ch_edit"}
                /\ UNCHANGED <<channel, sent, channel_message_id>>
          /\ l.pc \in {"dl_update", "dl_delete", "dl_send"} =>
                /\ l2.pc \in {"dl_delete", "dl_send", "ch_edit"}
                /\ UNCHANGED <<channel, channel_message_id>>
          /\ (l.pc = "ch_edit" /\ l2.pc = "while") =>
                /\ l.arg \in channel
                /\ UNCHANGED <<channel, sent, channel_message_id>>
          /\ l2.pc = "ch_delete" =>
                /\ l.pc = "ch_edit"
                /\ UNCHANGED <<channel, sent, channel_message_id>>
          /\ l2.pc = "ch_send" =>
                /\ l.pc = "ch_delete"
                /\ channel' \in {channel, channel \ {l.arg}}
                /\ UNCHANGED <<sent, channel_message_id>>
          /\ l.pc = "ch_send" =>
                /\ l2.pc = "while"
                /\ \/ channel_message_id' = None /\ UNCHANGED <<channel, sent>>
                   \/ /\ channel_message_id' = sent.ch + 1
                      /\ channel' = channel \cup {channel_message_id'}
                      /\ channel_message_id' \notin channel]_vars
\* the only loop there has been failed to edit the post, deleted it and is
\* sending a new one
C4_Witness ==
    /\ received = 1
    /\ channel = {}
    /\ sent.ch = 1
    /\ \E l \in BagToSet(loops) : l.pc = "ch_send"

\* C5: with a post displayed, a loop leaves its while test for a send, edit
\* or delete only with a track whose id differs from last_track_id, and that
\* step changes nothing in the chats nor last_track_id or channel_message_id
C5_SameIdNoOp ==
    [][\A l \in BagToSet(loops) : \A l2 \in BagToSet(loops') :
        (Stepped(l, l2) /\ l.pc = "while" /\ channel_message_id # None) =>
            /\ l2.id # last_track_id
            /\ UNCHANGED <<chats, last_track_id, channel_message_id>>]_vars
\* a running loop is at its while test with a track already posted
C5_Witness ==
    /\ bot_active
    /\ channel_message_id # None
    /\ last_track_id # None
    /\ [Waiting EXCEPT !.pc = "while"] \in BagToSet(loops)

\* C6: between iterations and handlers the download channel holds exactly
\* the audio download_message_id refers to, and no audio when
\* download_message_id is None
C6_DownloadMatchesId ==
    Quiescent =>
        download_channel = IF download_message_id = None THEN {}
                                                         ELSE {download_message_id}

\* C7: with the tracker stopped and no handler at work, channel_message_id
\* and download_message_id are None
C7_StoppedStaysClear ==
    (~bot_active /\ h = NoHandler) =>
        (channel_message_id = None /\ download_message_id = None)

\* C8 as stated: the dispatch of a press that is none of start, stop and
\* refresh changes a field of the state record
C8_ToggleFlips ==
    [][(h.pc = "answer" /\ h.data \notin ButtonData /\ h' # h)
          => BotState' # BotState]_vars
\* C8: the dispatch of a press that is none of start, stop and refresh ends
\* the handler and changes no field, no task and no chat
C8_OnlyThreeButtons ==
    [][(h.pc = "answer" /\ h.data \notin ButtonData /\ h' # h)
          => (h' = NoHandler /\ UNCHANGED <<BotState, loops, chats>>)]_vars
\* such a press is about to be dispatched while a track is displayed
C8_Witness ==
    /\ h.pc = "answer"
    /\ h.data \notin ButtonData
    /\ bot_active
    /\ channel_message_id # None

\* C9 as stated: every field keeps its initial value until the first /start
\* command or start_tracker press
C9_InitialUntilStart == inputs < 2 => AllInitial
\* C9: every field keeps its initial value until the first /start command,
\* start_tracker press or refresh_status press, and until the first
\* start_tracker press no loop runs and nothing is posted
C9_InitialUntilInput ==
    /\ inputs = 0 => AllInitial
    /\ inputs < 3 =>
          /\ TrackerInitial
          /\ Alive = 0
          /\ channel = {} /\ download_channel = {}
\* presses have been handled and the record is still as constructed
C9_Witness == inputs = 0 /\ received >= 2 /\ h = NoHandler

\* C10: the dispatch of a start_tracker press while bot_active is True, and
\* of a stop_tracker press while it is False, ends the handler and changes
\* no field, no task and no chat
C10_Idempotent ==
    [][(/\ h.pc = "answer"
        /\ h' # h
        /\ \/ h.data = "start_tracker" /\ bot_active
           \/ h.data = "stop_tracker" /\ ~bot_active)
          => (h' = NoHandler /\ UNCHANGED <<BotState, loops, chats>>)]_vars
\* start_tracker is about to be dispatched while a track is displayed
C10_Witness ==
    /\ h.pc = "answer"
    /\ h.data = "start_tracker"
    /\ bot_active
    /\ channel_message_id # None
    /\ download_message_id # None

Tracker == <<last_track_id, channel_message_id, download_message_id,
             bot_active, loops, channel, download_channel>>

\* C12: update_status_message sends no message when an id is recorded and
\* otherwise sends one and records its id (or fails and records nothing);
\* /start calls delete on the recorded status message, if any, before it
\* replies, and records the id of its reply; the dispatch of refresh_status
\* only calls update_status_message; none of these steps changes a field
\* other than bot_status_message_id
C12_StatusMessage ==
    [][h' # h =>
        /\ h.pc = "status" =>
              /\ UNCHANGED Tracker
              /\ IF bot_status_message_id # None
                 THEN UNCHANGED <<bot_status_message_id, control_chat, sent>>
                 ELSE \/ UNCHANGED <<bot_status_message_id, control_chat, sent>>
                      \/ /\ bot_status_message_id' = sent.st + 1
                         /\ bot_status_message_id' \notin control_chat
                         /\ control_chat' =
                               control_chat \cup {bot_status_message_id'}
        /\ (h = NoHandler /\ h'.data = "/start") =>
              /\ UNCHANGED <<Tracker, bot_status_message_id, chats>>
              /\ h'.arg = bot_status_message_id
              /\ h'.pc = IF bot_status_message_id # None THEN "cmd_del"
                                                          ELSE "cmd_reply"
        /\ h.pc = "cmd_del" =>
              /\ h'.pc = "cmd_reply"
              /\ control_chat' \in {control_chat, control_chat \ {h.arg}}
              /\ UNCHANGED <<Tracker, bot_status_message_id, sent>>
        /\ h.pc = "cmd_reply" =>
              /\ UNCHANGED Tracker
              /\ \/ UNCHANGED <<bot_status_message_id, control_chat, sent>>
                 \/ /\ bot_status_message_id' = sent.st + 1
                    /\ bot_status_message_id' \notin control_chat
                    /\ control_chat' =
                          control_chat \cup {bot_status_message_id'}
        /\ (h.pc = "answer" /\ h.data = "refresh_status") =>
              /\ h'.pc = "status"
              /\ UNCHANGED <<Tracker, bot_status_message_id, chats>>]_vars
\* /start has deleted the status message recorded before and recorded its
\* reply
C12_Witness ==
    /\ h = NoHandler
    /\ bot_status_message_id = 2
    /\ control_chat = {2}

\* C13: when a loop ends an iteration with channel_message_id set, the post
\* channel_message_id refers to is in the channel and shows the track
\* last_track_id names
C13_PostShowsLastTrack ==
    [][\A l, l2 \in DOMAIN loops \cup DOMAIN loops' :
        (Stepped(l, l2) /\ l2.pc = "while" /\ channel_message_id' # None) =>
            /\ channel_message_id' \in channel'
            /\ channel_message_id' = sent'.ch
            /\ shown' = last_track_id']_vars

\* the states of a loop in which it has called send_new_track_message or
\* edit_track_message: get_channel_keyboard was evaluated in the call
Keyboard == {"ch_edit", "ch_send", "new_ch_send"}

\* C14: a loop builds the keyboard of the channel post only after the
\* download step of the iteration, and download_message_id is then None or
\* the id of an audio in the download channel that carries the track of the
\* post
C14_ButtonOfSameTrack ==
    [][\A l, l2 \in DOMAIN loops \cup DOMAIN loops' :
        (Stepped(l, l2) /\ l2.pc \in Keyboard) =>
            /\ l2.pc = "ch_edit" =>
                  l.pc \in {"while", "dl_update", "dl_delete", "dl_send"}
            /\ l.pc = "while" => ~l2.url /\ download_message_id' = None
            /\ l2.pc = "new_ch_send" => l.pc \in {"while", "new_dl_send"}
            /\ l2.pc = "ch_send" => l.pc = "ch_delete"
            /\ \/ download_message_id' = None
               \/ /\ download_message_id' \in download_channel'
                  /\ download_message_id' = sent'.dl
                  /\ played' = l2.id]_vars

\* the tracks get_current_track can return
Found == Polled \ {NoTrack}

\* when get_current_track returns t, loop l leaves the while test for one of
\* the calls pcs
Fresh(l, t, pcs) ==
    ENABLED (/\ track_checker_polled(l, t)
             /\ \E l2 \in DOMAIN loops' : l2.pc \in pcs /\ Stepped(l, l2))

\* C15 as stated: a loop that polls a track while an id is None (as a failed
\* send leaves it) sends a fresh message for it: audio and post when
\* channel_message_id is None, the audio when download_message_id is None
\* and the track has a download link
C15_FailedSendResent ==
    \A l \in DOMAIN loops, t \in Found :
        (l.pc = "while" /\ Running) =>
            /\ channel_message_id = None =>
                  Fresh(l, t, {"new_dl_send", "new_ch_send"})
            /\ (download_message_id = None /\ t.url) =>
                  Fresh(l, t, {"dl_send", "new_dl_send"})

\* no step of a loop ends it but the while test with bot_active False; a
\* send that adds no message leaves its id None and the loop goes on
C15_FailureKeepsLoop ==
    \A l, l2 \in DOMAIN loops \cup DOMAIN loops' :
        /\ Alive' < Alive =>
              ~bot_active /\ \E w \in DOMAIN loops :
                                w.pc = "while" /\ loops' = loops (-) One(w)
        /\ Stepped(l, l2) =>
              /\ (l.pc \in {"ch_send", "new_ch_send"} /\ channel' = channel)
                    => channel_message_id' = None /\ l2 = Waiting
              /\ (l.pc \in {"dl_send", "new_dl_send"}
                    /\ download_channel' = download_channel)
                    => /\ download_message_id' = None
                       /\ l2.pc \in {"ch_edit", "new_ch_send"}

\* C15: a failed call never ends a loop: every loop past the while test has
\* a next step whatever its calls return, and a loop ends only at the while
\* test with bot_active False; a failed send leaves its id None; while
\* channel_message_id is None a poll that returns a track sends audio and
\* post anew, and while download_message_id is None with a post displayed
\* a poll sends the audio when the track has a download link and differs
\* from last_track_id
C15_LoopSurvives ==
    /\ [](\A l \in DOMAIN loops :
            /\ l.pc # "while" => ENABLED <<track_checker(l)>>_vars
            /\ (l.pc = "while" /\ Running) =>
                  \A t \in Found :
                      /\ channel_message_id = None =>
                            Fresh(l, t, {"new_dl_send", "new_ch_send"})
                      /\ (/\ channel_message_id # None
                          /\ download_message_id = None
                          /\ t.url
                          /\ t.id # last_track_id) =>
                            Fresh(l, t, {"dl_send"}))
    /\ [][C15_FailureKeepsLoop]_vars
\* the only loop there has been failed to send the post and is back at the
\* while test with channel_message_id None
C15_Witness ==
    /\ received = 1
    /\ bot_active
    /\ h = NoHandler
    /\ loops = One(Waiting)
    /\ last_track_id # None
    /\ channel_message_id = None
    /\ channel = {}

\* C16: a response that raises, has a status other than 200, has no track
\* object or no track_id makes get_current_track return None, and on None
\* a running loop at the while test stays there, leaves the three chats
\* as they are and leaves last_track_id, channel_message_id and
\* download_message_id unchanged; a loop leaves the while test for a call
\* only with a track that has an id
C16_NoTrackNoOp ==
    /\ [](/\ \A r \in Responses :
                (r.raises \/ r.status # 200 \/ ~r.track \/ r.track_id = None)
                    => get_current_track(r) = NoTrack
          /\ \A l \in DOMAIN loops :
                (l.pc = "while" /\ Running) =>
                    ~ENABLED (/\ track_checker_polled(l, NoTrack)
                              /\ <<loops, chats, last_track_id,
                                   channel_message_id,
                                   download_message_id>>' #
                                 <<loops, chats, last_track_id,
                                   channel_message_id,
                                   download_message_id>>))
    /\ [][\A l, l2 \in DOMAIN loops \cup DOMAIN loops' :
            (Stepped(l, l2) /\ l.pc = "while") => l2.id \in TrackIds]_vars
\* a running loop is at the while test with a post and an audio displayed
\* and a track recorded
C16_Witness ==
    /\ bot_active
    /\ h = NoHandler
    /\ loops = One(Waiting)
    /\ last_track_id # None
    /\ channel_message_id \in channel
    /\ download_message_id \in download_channel
====
